---- MODULE Spec2Model ----
(***************************************************************************)
(* The Redis-backed circuit breaker of redis_breaker/common: the keys it   *)
(* keeps in the shared store, its three Lua scripts, and the store round   *)
(* trips of RedisCircuitBreaker's constructor, allow_request,              *)
(* record_success and record_failure, executed by several request          *)
(* handlers (call_service) whose round trips interleave.                   *)
(*                                                                         *)
(* Handlers.  Every handler runs the same code with the same               *)
(* configuration and keeps nothing between requests, so the handlers are   *)
(* interchangeable: the fleet is kept as the bag of the handlers' local    *)
(* states (where each is in its code, and its local variables).            *)
(*                                                                         *)
(* Time.  The code uses timestamps only through                            *)
(*     elapsed = time.time() - last_failure ;  elapsed < recovery_timeout  *)
(* and through the lease of the probe lock.  A timestamp is therefore kept *)
(* relative to the current clock reading: 0 is "now", -k is "k seconds     *)
(* ago"; Tick moves every kept timestamp TickSecs further into the past    *)
(* and saturates at -RecoveryTimeout, below which the code cannot tell     *)
(* timestamps apart.  The lock is kept as its remaining lease (0: the key  *)
(* does not exist).                                                        *)
(***************************************************************************)
EXTENDS Integers, FiniteSets, Sequences, Bags, TLC

\* ---------------------------------------------------------------- bounds
NumProcs == 3
MaxFailures == 4

\* ------------------------------------------------------ program constants
FailureThreshold == 3
RecoveryTimeout == 10
LockLease == 5
\* the clock advances in steps of the shortest duration the code uses
TickSecs == LockLease

\* CircuitState, plus the value of a key that does not exist
CLOSED == "closed"
OPEN == "open"
HALF_OPEN == "half_open"
ABSENT == "absent"
CircuitState == {CLOSED, OPEN, HALF_OPEN}

Min(a, b) == IF a < b THEN a ELSE b
Max(a, b) == IF a > b THEN a ELSE b

\* time.time(): timestamps are relative to the current clock reading
Now == 0
\* a key holding no timestamp / holding timestamp t
NoTime == <<>>
Time(t) == <<t>>

VARIABLES
    redis,          \* the keys of the service: state, failures, last_failure, probe_lock
    fleet,          \* the bag of the handlers' local states [pc, lf, via]:
                    \*   pc:  where the handler is in call_service
                    \*   lf:  allow_request's local last_failure
                    \*   via: how the request the handler has in flight was admitted
    nfail,          \* history: record_failure calls since run began
    run,            \* history: what record_success last did to the record: nothing yet
                    \* ("init"), reset the counter with the state CLOSED ("closed0"),
                    \* moved HALF_OPEN to CLOSED and not reset the counter yet
                    \* ("recovered"), anything else ("dirty"); or that _open has
                    \* run once ("opened") or more than once ("reopened")
    lateAdmit,      \* history: a request was admitted after a probe leader stopped
    local           \* the in-process CircuitBreaker objects of one process (that of
                    \* distrbuted_breaker/common and that of simple_breaker), their
                    \* configuration, and what the last allow_request calls returned

vars == <<redis, fleet, nfail, run, lateAdmit, local>>

\* the labels of call_service
Labels ==
    {"new", "ctor_set_state", "ctor_set_failures", "idle", "allow_get_time", "allow_elapsed",
     "allow_lock", "allow_cas", "blocked", "inflight", "success_set_state",
     "success_set_failures", "success_del_lock", "success_reset", "except", "crashed",
     "cb_elapsed", "cb_half_open", "cb_set_closed", "cb_reset", "cb_failure_test",
     "cb_set_open", "cb_set_time"}

\* the timestamps a handler can hold
Times == {-(k * TickSecs) : k \in 0..(RecoveryTimeout \div TickSecs)}

\* the local states of a handler
LocalStates ==
    [pc : Labels, lf : {0}, via : {"none"}]
        \cup [pc : {"allow_elapsed"}, lf : Times, via : {"none"}]
        \cup [pc : {"inflight", "crashed"}, lf : {0}, via : {"closed", "probe"}]

\* a handler at label l with no request admitted
At(l) == [pc |-> l, lf |-> 0, via |-> "none"]

\* the handlers of fleet f that are at one of the labels ls
Handlers(f, ls) == {h \in BagToSet(f) : h.pc \in ls}

RECURSIVE Copies(_, _)
Copies(f, hs) ==
    IF hs = {} THEN 0
    ELSE LET h == CHOOSE x \in hs : TRUE
         IN  CopiesIn(h, f) + Copies(f, hs \ {h})

\* how many handlers of fleet f are at one of the labels ls
NumAt(f, ls) == Copies(f, Handlers(f, ls))

\* ------------------------------------------------------------ Lua scripts

OPEN_SCRIPT_first(s, open, ts) ==
    [s EXCEPT !.state = open,
              !.last_failure = IF @ = NoTime THEN Time(ts) ELSE @,
              !.probe_lock = 0]

\* OPEN_SCRIPT: SET state, SET time, DEL lock
OPEN_SCRIPT(s, open, ts) ==
    [s EXCEPT !.state = open, !.last_failure = Time(ts), !.probe_lock = 0]

FAILURE_SCRIPT_gt(s, threshold, open, ts) ==
    LET failures == s.failures + 1
        t == [s EXCEPT !.failures = failures]
    IN  IF failures > threshold
        THEN [t EXCEPT !.state = open, !.last_failure = Time(ts), !.probe_lock = 0]
        ELSE t

\* FAILURE_SCRIPT: INCR failures; at the threshold SET state, SET time, DEL lock.
\* The script returns the incremented counter, which is .failures of the result.
FAILURE_SCRIPT(s, threshold, open, ts) ==
    LET failures == s.failures + 1
        t == [s EXCEPT !.failures = failures]
    IN  IF failures >= threshold
        THEN [t EXCEPT !.state = open, !.last_failure = Time(ts), !.probe_lock = 0]
        ELSE t

HALF_OPEN_SCRIPT_blind(s, expected, new) ==
    [store |-> [s EXCEPT !.state = new], ret |-> 1]

\* HALF_OPEN_SCRIPT: compare-and-swap of the state key
HALF_OPEN_SCRIPT(s, expected, new) ==
    IF s.state = expected
    THEN [store |-> [s EXCEPT !.state = new], ret |-> 1]
    ELSE [store |-> s, ret |-> 0]

\* redis.set(probe_lock, "1", nx=True, ex=5)
SetNxEx(s, lease) ==
    IF s.probe_lock = 0
    THEN [store |-> [s EXCEPT !.probe_lock = lease], ret |-> TRUE]
    ELSE [store |-> s, ret |-> FALSE]

\* ------------------------------------------------ the in-process breakers

\* CircuitBreaker.__init__, the same in distrbuted_breaker/common and in
\* simple_breaker
CircuitBreaker == [state |-> CLOSED, failure_count |-> 0, last_failure_time |-> NoTime]

\* what a call returns: the object after the call, the value returned, and
\* whether the call raised instead (None in the subtraction: TypeError)
Returns(b, ret) == [cb |-> b, ret |-> ret, error |-> FALSE]
Raises(b) == [cb |-> b, ret |-> FALSE, error |-> TRUE]

allow_request_gt(b, recovery_timeout, now) ==
    IF b.state = OPEN
    THEN IF b.last_failure_time = NoTime
         THEN Raises(b)
         ELSE LET elapsed == now - b.last_failure_time[1]
              IN  IF elapsed > recovery_timeout
                  THEN Returns([b EXCEPT !.state = HALF_OPEN], TRUE)
                  ELSE Returns(b, FALSE)
    ELSE Returns(b, TRUE)

\* distrbuted_breaker: CircuitBreaker.allow_request
allow_request(b, recovery_timeout, now) ==
    IF b.state = OPEN
    THEN IF b.last_failure_time = NoTime
         THEN Raises(b)
         ELSE LET elapsed == now - b.last_failure_time[1]
              IN  IF elapsed >= recovery_timeout
                  THEN Returns([b EXCEPT !.state = HALF_OPEN], TRUE)
                  ELSE Returns(b, FALSE)
    ELSE Returns(b, TRUE)

\* distrbuted_breaker: CircuitBreaker.record_success
record_success(b) ==
    IF b.state = HALF_OPEN
    THEN [b EXCEPT !.state = CLOSED, !.failure_count = 0]
    ELSE [b EXCEPT !.failure_count = 0]

\* distrbuted_breaker: CircuitBreaker.record_failure
record_failure(b, failure_threshold, now) ==
    LET c == [b EXCEPT !.failure_count = @ + 1]
    IN  IF c.state = HALF_OPEN
        THEN [c EXCEPT !.state = OPEN, !.last_failure_time = Time(now)]
        ELSE IF c.failure_count >= failure_threshold
             THEN [c EXCEPT !.state = OPEN, !.last_failure_time = Time(now)]
             ELSE c

\* simple_breaker: the three transitions
transition_to_open(b, now) == [b EXCEPT !.state = OPEN, !.last_failure_time = Time(now)]
transition_to_half_open(b) == [b EXCEPT !.state = HALF_OPEN]
transition_to_closed(b) ==
    [b EXCEPT !.state = CLOSED, !.failure_count = 0, !.last_failure_time = NoTime]

\* simple_breaker: CircuitBreaker.allow_request
simple_allow_request(b, recovery_timeout, now) ==
    IF b.state = OPEN
    THEN IF b.last_failure_time = NoTime
         THEN Raises(b)
         ELSE LET elapsed == now - b.last_failure_time[1]
              IN  IF elapsed >= recovery_timeout
                  THEN Returns(transition_to_half_open(b), TRUE)
                  ELSE Returns(b, FALSE)
    ELSE Returns(b, TRUE)

\* simple_breaker: CircuitBreaker.record_success
simple_record_success(b) ==
    IF b.state = HALF_OPEN
    THEN transition_to_closed(b)
    ELSE [b EXCEPT !.failure_count = 0]

\* simple_breaker: CircuitBreaker.record_failure
simple_record_failure(b, failure_threshold, now) ==
    LET c == [b EXCEPT !.failure_count = @ + 1]
    IN  IF c.state = HALF_OPEN
        THEN transition_to_open(c, now)
        ELSE IF c.failure_count >= failure_threshold
             THEN transition_to_open(c, now)
             ELSE c

\* the processes of the Redis breaker use no in-process breaker: the objects
\* are as constructed, with the configuration of service_instance_A
NoCall == [redis |-> FALSE, dist |-> FALSE, simple |-> FALSE]

Local(failure_threshold, recovery_timeout) ==
    [failure_threshold |-> failure_threshold, recovery_timeout |-> recovery_timeout,
     dist |-> CircuitBreaker, simple |-> CircuitBreaker, ret |-> NoCall, error |-> FALSE]

\* ----------------------------------------------------------- the handlers

\* one handler goes from local state h to local state h2
Move(h, h2) == fleet' = (fleet (-) SetToBag({h})) (+) SetToBag({h2})

\* call_service after allow_request has returned: blocked (the 503 answer is
\* still to be sent), or admitted and the downstream call in flight
Return(h, admitted) ==
    /\ Move(h, [pc |-> IF admitted = "none" THEN "blocked" ELSE "inflight",
                lf |-> 0, via |-> admitted])
    /\ lateAdmit' = (lateAdmit \/ (admitted # "none" /\ NumAt(fleet, {"crashed"}) > 0))

\* call_service after the outcome has been reported: the handler is free again
Done(h) ==
    /\ Move(h, At("idle"))
    /\ UNCHANGED lateAdmit

Goto(h, label) ==
    /\ Move(h, [h EXCEPT !.pc = label])
    /\ UNCHANGED lateAdmit

\* __init__: redis.exists(state_key)
CtorExists(h) ==
    /\ h.pc = "new"
    /\ BagIn(h, fleet)
    /\ UNCHANGED local
    /\ Goto(h, IF redis.state # ABSENT THEN "idle" ELSE "ctor_set_state")
    /\ UNCHANGED <<redis, nfail, run>>

\* __init__: redis.set(state_key, CLOSED)
CtorSetState(h) ==
    /\ h.pc = "ctor_set_state"
    /\ BagIn(h, fleet)
    /\ UNCHANGED local
    /\ redis' = [redis EXCEPT !.state = CLOSED]
    /\ Goto(h, "ctor_set_failures")
    /\ UNCHANGED <<nfail, run>>

\* __init__: redis.set(failure_key, 0)
CtorSetFailures(h) ==
    /\ h.pc = "ctor_set_failures"
    /\ BagIn(h, fleet)
    /\ UNCHANGED local
    /\ redis' = [redis EXCEPT !.failures = 0]
    /\ Goto(h, "idle")
    /\ UNCHANGED <<nfail, run>>

AllowGetState_permissive(h) ==
    /\ h.pc = "idle"
    /\ BagIn(h, fleet)
    /\ UNCHANGED local
    /\ redis.state \in CircuitState
    /\ IF redis.state = OPEN THEN Goto(h, "allow_get_time") ELSE Return(h, "closed")
    /\ UNCHANGED <<redis, nfail, run>>

\* allow_request: state = self.get_state(), and the branches that need no
\* further round trip
AllowGetState(h) ==
    /\ h.pc = "idle"
    /\ BagIn(h, fleet)
    /\ UNCHANGED local
    /\ redis.state \in CircuitState
    /\ IF redis.state = OPEN THEN Goto(h, "allow_get_time")
       ELSE IF redis.state = HALF_OPEN THEN Return(h, "none")
       ELSE Return(h, "closed")
    /\ UNCHANGED <<redis, nfail, run>>

\* allow_request: last_failure = redis.get(time_key)
AllowGetTime(h) ==
    /\ h.pc = "allow_get_time"
    /\ BagIn(h, fleet)
    /\ UNCHANGED local
    /\ IF redis.last_failure = NoTime
       THEN Return(h, "none")
       ELSE /\ Move(h, [h EXCEPT !.pc = "allow_elapsed", !.lf = redis.last_failure[1]])
            /\ UNCHANGED lateAdmit
    /\ UNCHANGED <<redis, nfail, run>>

\* allow_request: elapsed = time.time() - last_failure; elapsed < recovery_timeout
AllowElapsed(h) ==
    /\ h.pc = "allow_elapsed"
    /\ BagIn(h, fleet)
    /\ UNCHANGED local
    /\ LET elapsed == Now - h.lf
       IN  IF elapsed < RecoveryTimeout
           THEN Return(h, "none")
           ELSE Move(h, At("allow_lock")) /\ UNCHANGED lateAdmit
    /\ UNCHANGED <<redis, nfail, run>>

\* allow_request, step 1: try to acquire the probe lock
AllowLock(h) ==
    /\ h.pc = "allow_lock"
    /\ BagIn(h, fleet)
    /\ UNCHANGED local
    /\ LET r == SetNxEx(redis, LockLease)
       IN  /\ redis' = r.store
           /\ IF r.ret THEN Goto(h, "allow_cas") ELSE Return(h, "none")
    /\ UNCHANGED <<nfail, run>>

\* allow_request, step 2: half_open_script
AllowCas(h) ==
    /\ h.pc = "allow_cas"
    /\ BagIn(h, fleet)
    /\ UNCHANGED local
    /\ LET r == HALF_OPEN_SCRIPT(redis, OPEN, HALF_OPEN)
       IN  /\ redis' = r.store
           /\ IF r.ret = 1 THEN Return(h, "probe") ELSE Return(h, "none")
    /\ UNCHANGED <<nfail, run>>

\* call_service, blocked: the 503 answer with cb.get_state() in its body
Blocked(h) ==
    /\ h.pc = "blocked"
    /\ BagIn(h, fleet)
    /\ UNCHANGED local
    /\ redis.state \in CircuitState
    /\ Goto(h, "idle")
    /\ UNCHANGED <<redis, nfail, run>>

\* record_success: state = self.get_state()
SuccessGetState(h) ==
    /\ h.pc = "inflight"
    /\ BagIn(h, fleet)
    /\ UNCHANGED local
    /\ Move(h, At(IF redis.state = HALF_OPEN THEN "success_set_state" ELSE "success_reset"))
    /\ UNCHANGED <<redis, nfail, run, lateAdmit>>

\* record_success, HALF_OPEN: redis.set(state_key, CLOSED)
SuccessSetState(h) ==
    /\ h.pc = "success_set_state"
    /\ BagIn(h, fleet)
    /\ UNCHANGED local
    /\ redis' = [redis EXCEPT !.state = CLOSED]
    /\ Goto(h, "success_set_failures")
    /\ run' = IF redis.state = HALF_OPEN THEN "recovered" ELSE "dirty"
    /\ nfail' = IF redis.state = HALF_OPEN THEN 0 ELSE nfail

\* record_success, HALF_OPEN: redis.set(failure_key, 0)
SuccessSetFailures(h) ==
    /\ h.pc = "success_set_failures"
    /\ BagIn(h, fleet)
    /\ UNCHANGED local
    /\ redis' = [redis EXCEPT !.failures = 0]
    /\ Goto(h, "success_del_lock")
    /\ nfail' = 0
    /\ run' = IF redis.state = CLOSED THEN "closed0" ELSE "dirty"

\* record_success, HALF_OPEN: redis.delete(probe_lock)
SuccessDelLock(h) ==
    /\ h.pc = "success_del_lock"
    /\ BagIn(h, fleet)
    /\ UNCHANGED local
    /\ redis' = [redis EXCEPT !.probe_lock = 0]
    /\ Done(h)
    /\ UNCHANGED <<nfail, run>>

SuccessReset_closes(h) ==
    /\ h.pc = "success_reset"
    /\ BagIn(h, fleet)
    /\ UNCHANGED local
    /\ redis' = [redis EXCEPT !.state = CLOSED, !.failures = 0]
    /\ Done(h)
    /\ nfail' = 0
    /\ run' = "closed0"

\* record_success, otherwise: redis.set(failure_key, 0)
SuccessReset(h) ==
    /\ h.pc = "success_reset"
    /\ BagIn(h, fleet)
    /\ UNCHANGED local
    /\ redis' = [redis EXCEPT !.failures = 0]
    /\ Done(h)
    /\ nfail' = 0
    /\ run' = IF redis.state = CLOSED THEN "closed0" ELSE "dirty"

\* record_failure: failure_script, one round trip
RecordFailure(h) ==
    /\ h.pc = "inflight"
    /\ BagIn(h, fleet)
    /\ UNCHANGED local
    /\ redis.failures < MaxFailures
    /\ redis' = FAILURE_SCRIPT(redis, FailureThreshold, OPEN, Now)
    /\ Done(h)
    /\ nfail' = Min(nfail + 1, MaxFailures + 1)
    /\ UNCHANGED run

\* the labels of a handler whose downstream call returned 200 and that is
\* about to send the next store command of record_success
SuccessLabels ==
    {"success_set_state", "success_set_failures", "success_del_lock", "success_reset"}

\* call_service: the store command record_success was about to send raises
\* (the store cannot be reached), inside the try block
Raise(h) ==
    /\ h.pc \in SuccessLabels
    /\ BagIn(h, fleet)
    /\ UNCHANGED local
    /\ Goto(h, "except")
    /\ UNCHANGED <<redis, nfail, run>>

\* call_service: except Exception: cb.record_failure()
ExceptRecordFailure(h) ==
    /\ h.pc = "except"
    /\ BagIn(h, fleet)
    /\ UNCHANGED local
    /\ redis.failures < MaxFailures
    /\ redis' = FAILURE_SCRIPT(redis, FailureThreshold, OPEN, Now)
    /\ Done(h)
    /\ nfail' = Min(nfail + 1, MaxFailures + 1)
    /\ UNCHANGED run

\* the elected probe leader stops without reporting an outcome
Crash(h) ==
    /\ h.pc = "inflight"
    /\ BagIn(h, fleet)
    /\ UNCHANGED local
    /\ h.via = "probe"
    /\ Goto(h, "crashed")
    /\ UNCHANGED <<redis, nfail, run>>

\* _open: open_script, one round trip
Open(h) ==
    /\ h.pc = "idle"
    /\ BagIn(h, fleet)
    /\ UNCHANGED local
    /\ redis' = OPEN_SCRIPT(redis, OPEN, Now)
    /\ run' = IF run \in {"opened", "reopened"} THEN "reopened" ELSE "opened"
    /\ UNCHANGED <<fleet, nfail, lateAdmit>>

\* ------------------------------------------------------------------ time

Older(t) == Max(t - TickSecs, -RecoveryTimeout)

\* the local state of a handler one tick later: a last_failure it holds is
\* one tick older
Aged(h) == IF h.pc = "allow_elapsed" THEN [h EXCEPT !.lf = Older(@)] ELSE h

\* an in-process breaker one tick later
AgedBreaker(b) ==
    [b EXCEPT !.last_failure_time = IF @ = NoTime THEN NoTime ELSE Time(Older(@[1]))]

Tick ==
    /\ redis' = [redis EXCEPT
                   !.last_failure = IF @ = NoTime THEN NoTime ELSE Time(Older(@[1])),
                   !.probe_lock = Max(@ - TickSecs, 0)]
    /\ fleet' = [a \in {Aged(h) : h \in BagToSet(fleet)} |->
                    Copies(fleet, {h \in BagToSet(fleet) : Aged(h) = a})]
    /\ local' = [local EXCEPT !.dist = AgedBreaker(@), !.simple = AgedBreaker(@)]
    /\ UNCHANGED <<nfail, run, lateAdmit>>

\* -------------------------------------------------------- specifications

EmptyStore == [state |-> ABSENT, failures |-> 0, last_failure |-> NoTime, probe_lock |-> 0]

\* NumProcs handlers, all at label l
Fleet(l) == [h \in {At(l)} |-> NumProcs]

History ==
    /\ nfail = 0
    /\ run = "init"
    /\ lateAdmit = FALSE
    /\ local = Local(FailureThreshold, RecoveryTimeout)

\* nothing constructed yet: the store has no key of the service
Init ==
    /\ redis = EmptyStore
    /\ fleet = Fleet("new")
    /\ History

Construct(h) == CtorExists(h) \/ CtorSetState(h) \/ CtorSetFailures(h)

AllowRequest(h) ==
    \/ AllowGetState(h) \/ AllowGetTime(h) \/ AllowElapsed(h) \/ AllowLock(h) \/ AllowCas(h)
    \/ Blocked(h)

RecordSuccess(h) ==
    \/ SuccessGetState(h) \/ SuccessSetState(h) \/ SuccessSetFailures(h)
    \/ SuccessDelLock(h) \/ SuccessReset(h)

Next ==
    \/ \E h \in LocalStates : Construct(h)
    \/ \E h \in LocalStates : AllowRequest(h)
    \/ \E h \in LocalStates : RecordSuccess(h)
    \/ \E h \in LocalStates : RecordFailure(h)
    \/ Tick

Spec == Init /\ [][Next]_vars

\* every handler has constructed its breaker: the record exists, CLOSED with
\* a zero counter, and nobody is part-way through __init__
InitSteady ==
    /\ redis = [EmptyStore EXCEPT !.state = CLOSED]
    /\ fleet = Fleet("idle")
    /\ History

NextSteady ==
    \/ \E h \in LocalStates : AllowRequest(h)
    \/ \E h \in LocalStates : RecordSuccess(h)
    \/ \E h \in LocalStates : RecordFailure(h)
    \/ Tick

SpecSteady == InitSteady /\ [][NextSteady]_vars

\* the breaker is OPEN (with any counter: reports that arrive late reset or
\* raise it), the recovery timeout has elapsed, and the handlers only call
\* allow_request
InitElection ==
    /\ \E n \in 0..MaxFailures :
          redis = [state |-> OPEN, failures |-> n,
                   last_failure |-> Time(-RecoveryTimeout), probe_lock |-> 0]
    /\ fleet = Fleet("idle")
    /\ History

NextElection ==
    \/ \E h \in LocalStates : AllowRequest(h)
    \/ Tick

SpecElection == InitElection /\ [][NextElection]_vars

\* a handler at label l takes its next step of allow_request or of the report
Step(l) ==
    \E h \in Handlers(fleet, {l}) : AllowRequest(h) \/ RecordSuccess(h) \/ RecordFailure(h)

\* a probe leader may stop for good; every other handler keeps polling
\* allow_request and reports the outcome of every request it was admitted
\* for, and the clock (with it the lease of the lock) keeps running
NextCrash ==
    \/ NextSteady
    \/ \E h \in LocalStates : Crash(h)

SpecCrash ==
    /\ InitSteady
    /\ [][NextCrash]_vars
    /\ WF_vars(Tick)
    /\ \A l \in Labels : WF_vars(Step(l))

\* nobody stops: every handler keeps polling allow_request and reports the
\* outcome of every request it was admitted for, and the clock keeps running
SpecFair ==
    /\ InitSteady
    /\ [][NextSteady]_vars
    /\ WF_vars(Tick)
    /\ \A l \in Labels : WF_vars(Step(l))

\* ----------------------------------------------- threads of one instance
\* The request handlers of one distrbuted_breaker instance are threads that
\* share the module's cb object (local.dist) and take no lock: their
\* statements interleave.

\* allow_request: if self.state == CircuitState.OPEN ... else return True
ThreadAllowState(h) ==
    /\ h.pc = "idle"
    /\ BagIn(h, fleet)
    /\ IF local.dist.state = OPEN
       THEN Move(h, At("cb_elapsed"))
       ELSE Move(h, [pc |-> "inflight", lf |-> 0, via |-> "closed"])
    /\ UNCHANGED <<redis, nfail, run, lateAdmit, local>>

\* allow_request: elapsed = time.time() - self.last_failure_time, which
\* raises TypeError on None, and elapsed >= self.recovery_timeout
ThreadAllowElapsed(h) ==
    /\ h.pc = "cb_elapsed"
    /\ BagIn(h, fleet)
    /\ IF local.dist.last_failure_time = NoTime
       THEN /\ local' = [local EXCEPT !.error = TRUE]
            /\ Move(h, At("idle"))
       ELSE LET elapsed == Now - local.dist.last_failure_time[1]
            IN  /\ UNCHANGED local
                /\ IF elapsed >= local.recovery_timeout
                   THEN Move(h, At("cb_half_open"))
                   ELSE Move(h, At("idle"))
    /\ UNCHANGED <<redis, nfail, run, lateAdmit>>

\* allow_request: self.state = CircuitState.HALF_OPEN; return True
ThreadAllowHalfOpen(h) ==
    /\ h.pc = "cb_half_open"
    /\ BagIn(h, fleet)
    /\ local' = [local EXCEPT !.dist.state = HALF_OPEN]
    /\ Move(h, [pc |-> "inflight", lf |-> 0, via |-> "probe"])
    /\ UNCHANGED <<redis, nfail, run, lateAdmit>>

\* record_success: if self.state == CircuitState.HALF_OPEN
ThreadSuccessTest(h) ==
    /\ h.pc = "inflight"
    /\ BagIn(h, fleet)
    /\ Move(h, At(IF local.dist.state = HALF_OPEN THEN "cb_set_closed" ELSE "cb_reset"))
    /\ UNCHANGED <<redis, nfail, run, lateAdmit, local>>

\* record_success: self.state = CircuitState.CLOSED
ThreadSuccessSetClosed(h) ==
    /\ h.pc = "cb_set_closed"
    /\ BagIn(h, fleet)
    /\ local' = [local EXCEPT !.dist.state = CLOSED]
    /\ Move(h, At("cb_reset"))
    /\ UNCHANGED <<redis, nfail, run, lateAdmit>>

\* record_success: self.failure_count = 0
ThreadSuccessReset(h) ==
    /\ h.pc = "cb_reset"
    /\ BagIn(h, fleet)
    /\ local' = [local EXCEPT !.dist.failure_count = 0]
    /\ Move(h, At("idle"))
    /\ UNCHANGED <<redis, nfail, run, lateAdmit>>

\* record_failure: self.failure_count += 1
ThreadFailureCount(h) ==
    /\ h.pc = "inflight"
    /\ BagIn(h, fleet)
    /\ local.dist.failure_count < MaxFailures
    /\ local' = [local EXCEPT !.dist.failure_count = @ + 1]
    /\ Move(h, At("cb_failure_test"))
    /\ UNCHANGED <<redis, nfail, run, lateAdmit>>

\* record_failure: if self.state == CircuitState.HALF_OPEN ... if
\* self.failure_count >= self.failure_threshold
ThreadFailureTest(h) ==
    /\ h.pc = "cb_failure_test"
    /\ BagIn(h, fleet)
    /\ IF local.dist.state = HALF_OPEN
       THEN Move(h, At("cb_set_open"))
       ELSE IF local.dist.failure_count >= local.failure_threshold
            THEN Move(h, At("cb_set_open"))
            ELSE Move(h, At("idle"))
    /\ UNCHANGED <<redis, nfail, run, lateAdmit, local>>

\* record_failure: self.state = CircuitState.OPEN
ThreadFailureSetOpen(h) ==
    /\ h.pc = "cb_set_open"
    /\ BagIn(h, fleet)
    /\ local' = [local EXCEPT !.dist.state = OPEN]
    /\ Move(h, At("cb_set_time"))
    /\ UNCHANGED <<redis, nfail, run, lateAdmit>>

\* record_failure: self.last_failure_time = time.time()
ThreadFailureSetTime(h) ==
    /\ h.pc = "cb_set_time"
    /\ BagIn(h, fleet)
    /\ local' = [local EXCEPT !.dist.last_failure_time = Time(Now)]
    /\ Move(h, At("idle"))
    /\ UNCHANGED <<redis, nfail, run, lateAdmit>>

ThreadAllowRequest(h) ==
    ThreadAllowState(h) \/ ThreadAllowElapsed(h) \/ ThreadAllowHalfOpen(h)

ThreadRecordSuccess(h) ==
    ThreadSuccessTest(h) \/ ThreadSuccessSetClosed(h) \/ ThreadSuccessReset(h)

ThreadRecordFailure(h) ==
    \/ ThreadFailureCount(h) \/ ThreadFailureTest(h)
    \/ ThreadFailureSetOpen(h) \/ ThreadFailureSetTime(h)

\* the instance has constructed its cb and serves /call with NumProcs threads
NextThreads ==
    \/ \E h \in LocalStates : ThreadAllowRequest(h)
    \/ \E h \in LocalStates : ThreadRecordSuccess(h)
    \/ \E h \in LocalStates : ThreadRecordFailure(h)
    \/ Tick

SpecThreads == InitSteady /\ [][NextThreads]_vars

\* a store command of record_success may raise
NextRaise ==
    \/ NextSteady
    \/ \E h \in LocalStates : Raise(h)
    \/ \E h \in LocalStates : ExceptRecordFailure(h)

SpecRaise == InitSteady /\ [][NextRaise]_vars

\* allow_request of the Redis breaker called by the only caller there is:
\* nothing runs between its round trips
redis_allow_request(s, recovery_timeout, now) ==
    IF s.state = OPEN
    THEN IF s.last_failure = NoTime
         THEN [store |-> s, ret |-> FALSE]
         ELSE LET elapsed == now - s.last_failure[1]
              IN  IF elapsed < recovery_timeout
                  THEN [store |-> s, ret |-> FALSE]
                  ELSE LET lock == SetNxEx(s, LockLease)
                           cas == HALF_OPEN_SCRIPT(lock.store, OPEN, HALF_OPEN)
                       IN  IF ~lock.ret
                           THEN [store |-> lock.store, ret |-> FALSE]
                           ELSE [store |-> cas.store, ret |-> cas.ret = 1]
    ELSE IF s.state = HALF_OPEN
         THEN [store |-> s, ret |-> FALSE]
         ELSE [store |-> s, ret |-> TRUE]

\* record_success of the Redis breaker called by the only caller there is
redis_record_success(s) ==
    IF s.state = HALF_OPEN
    THEN [s EXCEPT !.state = CLOSED, !.failures = 0, !.probe_lock = 0]
    ELSE [s EXCEPT !.failures = 0]

\* one sequential caller drives a Redis breaker and the two in-process
\* breakers with the same configuration, clock and outcomes: allow_request ...
PairAllow(h) ==
    /\ h.pc = "idle"
    /\ BagIn(h, fleet)
    /\ LET r == redis_allow_request(redis, local.recovery_timeout, Now)
           d == allow_request(local.dist, local.recovery_timeout, Now)
           m == simple_allow_request(local.simple, local.recovery_timeout, Now)
       IN  /\ redis' = r.store
           /\ local' = [local EXCEPT
                           !.dist = d.cb, !.simple = m.cb,
                           !.ret = [redis |-> r.ret, dist |-> d.ret, simple |-> m.ret],
                           !.error = d.error \/ m.error]
           /\ IF r.ret \/ d.ret \/ m.ret
              THEN Move(h, [pc |-> "inflight", lf |-> 0, via |-> "closed"])
              ELSE UNCHANGED fleet
    /\ UNCHANGED <<nfail, run, lateAdmit>>

\* ... and then, to each breaker that returned true, record_success ...
PairSuccess(h) ==
    /\ h.pc = "inflight"
    /\ BagIn(h, fleet)
    /\ redis' = IF local.ret.redis THEN redis_record_success(redis) ELSE redis
    /\ local' = [local EXCEPT
                    !.dist = IF local.ret.dist THEN record_success(@) ELSE @,
                    !.simple = IF local.ret.simple THEN simple_record_success(@) ELSE @]
    /\ Move(h, At("idle"))
    /\ UNCHANGED <<nfail, run, lateAdmit>>

\* ... or record_failure
PairFailure(h) ==
    /\ h.pc = "inflight"
    /\ BagIn(h, fleet)
    /\ redis.failures < MaxFailures
    /\ local.dist.failure_count < MaxFailures
    /\ local.simple.failure_count < MaxFailures
    /\ redis' = IF local.ret.redis
                THEN FAILURE_SCRIPT(redis, local.failure_threshold, OPEN, Now)
                ELSE redis
    /\ local' = [local EXCEPT
                    !.dist = IF local.ret.dist
                             THEN record_failure(@, local.failure_threshold, Now) ELSE @,
                    !.simple = IF local.ret.simple
                               THEN simple_record_failure(@, local.failure_threshold, Now)
                               ELSE @]
    /\ Move(h, At("idle"))
    /\ UNCHANGED <<nfail, run, lateAdmit>>

\* the three breakers as constructed, with any threshold up to
\* FailureThreshold and a recovery timeout of one or two ticks
InitPair ==
    /\ redis = [EmptyStore EXCEPT !.state = CLOSED]
    /\ fleet = SetToBag({At("idle")})
    /\ \E failure_threshold \in 1..FailureThreshold :
       \E recovery_timeout \in {TickSecs, RecoveryTimeout} :
           local = Local(failure_threshold, recovery_timeout)
    /\ nfail = 0
    /\ run = "init"
    /\ lateAdmit = FALSE

NextPair ==
    \/ \E h \in LocalStates : PairAllow(h)
    \/ \E h \in LocalStates : PairSuccess(h)
    \/ \E h \in LocalStates : PairFailure(h)
    \/ Tick

SpecPair == InitPair /\ [][NextPair]_vars

\* the records the keys of the service can hold
Records ==
    [state : CircuitState, failures : 0..MaxFailures,
     last_failure : {NoTime} \cup {Time(t) : t \in Times}, probe_lock : {0, LockLease}]

\* _open called on any record, any number of times, at any time
InitOpen ==
    /\ redis \in Records
    /\ fleet = Fleet("idle")
    /\ History

NextOpen ==
    \/ \E h \in LocalStates : Open(h)
    \/ Tick

SpecOpen == InitOpen /\ [][NextOpen]_vars

\* ----------------------------------------------------------------- claims

\* a handler whose request was admitted by the OPEN branch of allow_request
\* (lock won and CAS won) and that has not reported its outcome yet
Leader == [pc |-> "inflight", lf |-> 0, via |-> "probe"]

\* how many of them fleet f has
Leaders(f) == CopiesIn(Leader, f)

\* in this step a handler that was at label l has taken a step (the clock
\* leaves every handler where it is)
Left(l) == NumAt(fleet', {l}) < NumAt(fleet, {l})

\* the labels of a handler that is about to call allow_request or inside it
AllowLabels == {"idle", "allow_get_time", "allow_elapsed", "allow_lock", "allow_cas"}

\* the labels of a handler that is in no call of the breaker
RestLabels == {"idle", "blocked", "inflight", "crashed"}

\* elapsed of allow_request, taken from the stored last-failure time
StoredElapsed == Now - redis.last_failure[1]

\* C1: with the breaker OPEN and the recovery timeout elapsed, of the
\* allow_request calls that run concurrently exactly one returns true (never
\* two, and one whenever no call is part-way) and every other call returns
\* false, and the state changes only OPEN -> HALF_OPEN, which it can do once.
C1_ElectionStep ==
    /\ Leaders(fleet') <= 1
    /\ NumAt(fleet', {"inflight"}) = Leaders(fleet')
    /\ redis'.state # redis.state => redis.state = OPEN /\ redis'.state = HALF_OPEN
    /\ ((\E l \in AllowLabels : Left(l)) /\ NumAt(fleet', RestLabels) = NumProcs)
         => Leaders(fleet') = 1 /\ redis'.state = HALF_OPEN

C1_ProbeElection == [][C1_ElectionStep]_vars

\* one handler was elected while another, whose lock attempt succeeded after
\* the leader's lease ran out, is about to lose the compare-and-swap
C1_Witness ==
    /\ Leaders(fleet) = 1
    /\ NumAt(fleet, {"allow_cas"}) >= 1
    /\ redis.state = HALF_OPEN

\* C2: at most one probe leader is in flight at any time.
C2_OneLeader == Leaders(fleet) <= 1

\* C3: while the state is OPEN and less than recovery_timeout has elapsed
\* since the stored last-failure time, every step of every allow_request call
\* leaves the state OPEN and no call returns true.
C3_Step ==
    (redis.state = OPEN /\ redis.last_failure # NoTime /\ StoredElapsed < RecoveryTimeout)
        => \A l \in AllowLabels :
              Left(l) => /\ redis'.state = OPEN
                         /\ NumAt(fleet', {"inflight"}) <= NumAt(fleet, {"inflight"})

C3_TimeoutRespected == [][C3_Step]_vars

\* C4: record_failure by the probe leader while the state is HALF_OPEN leaves
\* the state OPEN, whatever the counter.  (Of a leader's steps only
\* record_failure takes it straight back to "idle".)
C4_Step ==
    (/\ redis.state = HALF_OPEN
     /\ Leaders(fleet') < Leaders(fleet)
     /\ NumAt(fleet', {"idle"}) > NumAt(fleet, {"idle"}))
        => redis'.state = OPEN

C4_FailedProbeReopens == [][C4_Step]_vars

\* C5: from CLOSED with a zero counter and no record_success since, the state
\* is CLOSED after fewer than failure_threshold record_failure calls, and the
\* call that is number failure_threshold moves CLOSED to OPEN and sets the
\* last-failure time in the same step.
C5_Step ==
    /\ (run' \in {"init", "closed0"} /\ nfail' < FailureThreshold)
          => redis'.state = CLOSED
    /\ (run \in {"init", "closed0"} /\ nfail = FailureThreshold - 1 /\ nfail' = FailureThreshold)
          => /\ redis.state = CLOSED
             /\ redis'.state = OPEN
             /\ redis'.last_failure = Time(Now)

C5_Threshold == [][C5_Step]_vars

\* the third failure in a row after a success recorded while CLOSED has just
\* opened the breaker
C5_Witness ==
    /\ run = "closed0"
    /\ nfail = FailureThreshold
    /\ redis.state = OPEN
    /\ redis.last_failure = Time(Now)

\* C6: as long as no record_success has run, the stored counter is the number
\* of record_failure calls executed (each call saw the count it made).
C6_NoLostFailure == run = "init" => redis.failures = nfail

\* C7: a record_success that read HALF_OPEN returns with the state CLOSED,
\* the counter 0 and the probe lock absent.
C7_Step ==
    Left("success_del_lock")
        => redis'.state = CLOSED /\ redis'.failures = 0 /\ redis'.probe_lock = 0

C7_SuccessCloses == [][C7_Step]_vars

\* C8: once a probe leader has stopped without reporting, some later
\* allow_request call returns true.
C8_CrashRecovers == (NumAt(fleet, {"crashed"}) > 0) ~> lateAdmit

\* C9: no step of a constructor changes a state another handler has written
\* or resets a non-zero counter.
C9_Step ==
    (Left("ctor_set_state") \/ Left("ctor_set_failures"))
        => /\ redis.state # ABSENT => redis'.state = redis.state
           /\ redis'.failures = redis.failures

C9_InitOnce == [][C9_Step]_vars

\* C10: after record_success has moved HALF_OPEN to CLOSED (and as long as no
\* record_success has written to the record since), the state becomes OPEN
\* only by the record_failure call that is at least number failure_threshold
\* since that transition.
C10_Step ==
    (run = "recovered" /\ redis.state # OPEN /\ redis'.state = OPEN)
        => nfail + 1 >= FailureThreshold

C10_FullThresholdAgain == [][C10_Step]_vars

\* C11: the state becomes HALF_OPEN only by the HALF_OPEN_SCRIPT round trip of
\* allow_request, run with the state OPEN (never from CLOSED); run with any
\* other state the script returns 0 and leaves the record as it is, and the
\* call returns false.
C11_Step ==
    /\ (redis'.state = HALF_OPEN /\ redis.state # HALF_OPEN)
          => Left("allow_cas") /\ redis.state = OPEN
    /\ redis.state # OPEN
          => LET r == HALF_OPEN_SCRIPT(redis, OPEN, HALF_OPEN)
             IN  r.store = redis /\ r.ret = 0
    /\ (redis.state # OPEN /\ BagIn(At("allow_cas"), fleet) /\ Left("allow_cas"))
          => /\ redis' = redis
             /\ NumAt(fleet', {"blocked"}) > NumAt(fleet, {"blocked"})

C11_HalfOpenOnlyByCas == [][C11_Step]_vars

\* the lock was taken a moment ago by a handler whose script has run since,
\* and the state is CLOSED: the script ran on a record that was not OPEN
C11_Witness ==
    /\ redis.state = CLOSED
    /\ redis.probe_lock = LockLease
    /\ Leaders(fleet) = 0
    /\ NumAt(fleet, {"allow_cas", "success_set_failures", "success_del_lock"}) = 0

\* C12: a step of a handler changes the stored last-failure time only if it
\* moves the state from CLOSED or HALF_OPEN to OPEN; a record_failure that
\* runs while the state is OPEN leaves the last-failure time and the probe
\* lock as they are, and no step of allow_request removes the lock.
C12_Step ==
    /\ (redis'.last_failure # redis.last_failure /\ \E l \in Labels : Left(l))
          => redis.state \in {CLOSED, HALF_OPEN} /\ redis'.state = OPEN
    /\ (redis.state = OPEN /\ redis'.failures = redis.failures + 1)
          => /\ redis'.last_failure = redis.last_failure
             /\ redis'.probe_lock = redis.probe_lock
    /\ (redis'.probe_lock < redis.probe_lock /\ \E l \in Labels : Left(l))
          => \A l \in AllowLabels : ~Left(l)

C12_TimeWrittenOnOpening == [][C12_Step]_vars

\* the in-process breaker objects with a counter up to MaxFailures
Breakers ==
    [state : CircuitState, failure_count : 0..MaxFailures,
     last_failure_time : {NoTime} \cup {Time(t) : t \in Times}]

\* C13: a record_success that reads a state other than HALF_OPEN changes
\* nothing when it reads and then sets the counter to 0, leaving the state, the
\* last-failure time and the probe lock as they are; so does record_success of
\* the in-process breakers on an object that is not HALF_OPEN.
C13_Step ==
    /\ NumAt(fleet', {"success_reset"}) > NumAt(fleet, {"success_reset"})
          => redis.state # HALF_OPEN /\ redis' = redis
    /\ Left("success_reset") => redis' = [redis EXCEPT !.failures = 0]

C13_InProcess ==
    \A b \in Breakers :
        b.state # HALF_OPEN
            => /\ record_success(b) = [b EXCEPT !.failure_count = 0]
               /\ simple_record_success(b) = [b EXCEPT !.failure_count = 0]

C13_PureReset == C13_InProcess /\ [][C13_Step]_vars

\* a success reported after the breaker had opened has reset the counter and
\* the breaker is still OPEN, with the time of its opening
C13_Witness ==
    /\ redis.state = OPEN
    /\ redis.failures = 0
    /\ redis.last_failure # NoTime
    /\ run = "dirty"
    /\ NumAt(fleet, {"success_set_failures", "success_del_lock"}) = 0

\* the handlers of fleet f whose last allow_request call returned true and
\* that have not reported yet, and those whose call returned false and that
\* have not answered yet
Admitted(f) == CopiesIn([pc |-> "inflight", lf |-> 0, via |-> "closed"], f) + Leaders(f)
Refused(f) == CopiesIn(At("blocked"), f)

\* C14: an allow_request call that reads CLOSED returns true and writes
\* nothing; one that reads HALF_OPEN returns false; a call that read OPEN
\* returns true only from the compare-and-swap it runs after taking the lock,
\* and only if that moved OPEN to HALF_OPEN; the step by which a call returns
\* false changes neither state, nor counter, nor last-failure time.
C14_Step ==
    LET reads == CopiesIn(At("idle"), fleet') < CopiesIn(At("idle"), fleet)
        true == Admitted(fleet') > Admitted(fleet)
        false == Refused(fleet') > Refused(fleet)
    IN  /\ (reads /\ redis.state = CLOSED) => true /\ redis' = redis
        /\ (reads /\ redis.state = HALF_OPEN) => false
        /\ (reads /\ redis.state = OPEN) => ~true /\ redis' = redis
        /\ (true /\ ~reads)
              => /\ CopiesIn(At("allow_cas"), fleet') < CopiesIn(At("allow_cas"), fleet)
                 /\ Leaders(fleet') > Leaders(fleet)
                 /\ redis.state = OPEN
                 /\ redis'.state = HALF_OPEN
        /\ false
              => /\ redis'.state = redis.state
                 /\ redis'.failures = redis.failures
                 /\ redis'.last_failure = redis.last_failure

C14_DecisionTable == [][C14_Step]_vars

\* the three answers at once: a request admitted while CLOSED is in flight,
\* a probe leader is in flight, and a call that read HALF_OPEN was refused
C14_Witness ==
    /\ redis.state = HALF_OPEN
    /\ Leaders(fleet) = 1
    /\ Refused(fleet) >= 1
    /\ Admitted(fleet) = 2

\* C15: on any record, OPEN_SCRIPT run with timestamp t1 and then with a
\* timestamp t2 >= t1 gives the record that running it once with t2 gives:
\* state OPEN, last-failure time t2, no probe lock, the counter as it was.
C15_Idempotent ==
    \A t1 \in Times, t2 \in Times :
        t1 <= t2
            => LET once == OPEN_SCRIPT(redis, OPEN, t2)
                   twice == OPEN_SCRIPT(OPEN_SCRIPT(redis, OPEN, t1), OPEN, t2)
               IN  /\ twice = once
                   /\ once = [state |-> OPEN, failures |-> redis.failures,
                              last_failure |-> Time(t2), probe_lock |-> 0]

\* _open has just run for at least the second time, on a record with the
\* counter at its bound
C15_Witness ==
    /\ run = "reopened"
    /\ redis = [state |-> OPEN, failures |-> MaxFailures,
                last_failure |-> Time(Now), probe_lock |-> 0]

\* C16: record_success commits in one indivisible transition: while a call is
\* between its store writes no other handler can find the record CLOSED with
\* the counter still at the threshold, or CLOSED with the probe lock still
\* there.
C16_AtomicReports ==
    /\ CopiesIn(At("success_set_failures"), fleet) > 0
          => ~(redis.state = CLOSED /\ redis.failures >= FailureThreshold)
    /\ CopiesIn(At("success_del_lock"), fleet) > 0
          => ~(redis.state = CLOSED /\ redis.probe_lock > 0)

\* C17: driven by one sequential caller that reports exactly one outcome
\* after every allow_request that returned true, with the same threshold,
\* timeout, clock and outcomes, the Redis breaker and the in-process breakers
\* return the same from every allow_request (and none raises) and are in the
\* same state with the same failure count after every call.
C17_SameAsInProcess ==
    /\ ~local.error
    /\ local.ret.redis = local.ret.dist
    /\ local.ret.redis = local.ret.simple
    /\ redis.state = local.dist.state
    /\ redis.state = local.simple.state
    /\ redis.failures = local.dist.failure_count
    /\ redis.failures = local.simple.failure_count

\* a probe, admitted by all three breakers after the timeout, has failed:
\* the breakers are OPEN again with the count above the threshold
C17_Witness ==
    /\ redis.state = OPEN
    /\ local.dist.state = OPEN
    /\ redis.failures = local.failure_threshold + 1
    /\ redis.last_failure = Time(Now)
    /\ local.ret.redis

\* C18: a request that allow_request refused reports nothing; a request it
\* admitted reports one outcome, which it starts in the step that ends the
\* downstream call, and if the downstream call returned 200 the request never
\* calls record_failure, also when a store command of record_success raised.
C18_Step ==
    /\ Refused(fleet') < Refused(fleet) => redis' = redis
    /\ Admitted(fleet') < Admitted(fleet)
          => \/ redis'.failures = redis.failures + 1
                   /\ CopiesIn(At("idle"), fleet') > CopiesIn(At("idle"), fleet)
             \/ redis' = redis /\ NumAt(fleet', SuccessLabels) > NumAt(fleet, SuccessLabels)
    /\ CopiesIn(At("except"), fleet') < CopiesIn(At("except"), fleet)
          => redis'.failures = redis.failures

C18_OneOutcome == [][C18_Step]_vars

\* C19: when every admitted request is reported, a HALF_OPEN state is
\* followed by CLOSED or OPEN.
C19_HalfOpenEnds == (redis.state = HALF_OPEN) ~> (redis.state \in {CLOSED, OPEN})

\* the labels of a handler that is part-way through the store commands of
\* __init__ or of record_success (record_failure is one command)
PartWayLabels == {"ctor_set_state", "ctor_set_failures"} \cup SuccessLabels

\* C20: when no constructor and no report is part-way through its store
\* commands, state CLOSED implies a counter below the threshold.
C20_ClosedBelowThreshold ==
    (NumAt(fleet, PartWayLabels) = 0 /\ redis.state = CLOSED)
        => redis.failures < FailureThreshold

\* the breaker has been open, has recovered, and has counted
\* failure_threshold - 1 failures since; no call is part-way
C20_Witness ==
    /\ NumAt(fleet, PartWayLabels) = 0
    /\ redis.state = CLOSED
    /\ redis.failures = FailureThreshold - 1
    /\ redis.last_failure # NoTime

\* C21 for the Redis breaker: state OPEN implies that the last_failure key
\* holds a timestamp.
C21_Redis == redis.state = OPEN => redis.last_failure # NoTime

\* C21 for the in-process breakers: no allow_request has subtracted None, and
\* whenever no record_failure is between its two assignments, state OPEN
\* implies that last_failure_time is not None.
C21_InProcess ==
    /\ ~local.error
    /\ CopiesIn(At("cb_set_time"), fleet) = 0
          => /\ local.dist.state = OPEN => local.dist.last_failure_time # NoTime
             /\ local.simple.state = OPEN => local.simple.last_failure_time # NoTime

\* C21: whenever the state is OPEN the last-failure time is defined, in the
\* Redis breaker and in the in-process breakers, so that allow_request never
\* finds the time missing.
C21_OpenHasTime == C21_Redis /\ C21_InProcess

====
